---- MODULE Spec2Model ----
(***************************************************************************)
(* A model of src/src/main.rs: a caching HTTP proxy.                       *)
(*                                                                         *)
(* Controller::process fingerprints the inbound request, looks the         *)
(* fingerprint up in the cache under the cache mutex, and on a miss calls  *)
(* Controller::proxy, buffers the body, stores a CachedResponse and        *)
(* returns the response.  Controller::clear_expired_cache is the sweeper   *)
(* loop.  Time is the SystemTime clock in whole seconds; it never goes     *)
(* back in this model.                                                     *)
(***************************************************************************)
EXTENDS Integers, Sequences, FiniteSets, TLC

VARIABLES
    traffic,      \* the requests the clients of this run send
    clock,        \* SystemTime::now(), in seconds
    ticks,        \* how many times the clock has advanced (bounds the run)
    cache,        \* Controller.cache: fingerprint -> CachedResponse
    lockHolder,   \* tokio Mutex on the cache: the task that holds the guard
    waiters,      \* tokio Mutex on the cache: the tasks in lock().await, in FIFO order
    pc,           \* where each request handler (a call of process) stands
    req,          \* the inbound request each handler was given
    req_hash,     \* process: let req_hash
    response,     \* process/proxy: the response the handler holds
    cached,       \* process: let cached (the CachedResponse the handler built)
    result,       \* what process returned: Ok(response), Err, or a panic
    spc,          \* where the sweeper loop stands
    now,          \* clear_expired_cache: let now (0 outside a pass)
    \* history variables: they record what happened and decide nothing
    sent,         \* the requests each handler submitted to the client transport, in order
    via,          \* what each handler's lookup found: "hit", "absent" or "stale"
    inFlightAtStart, \* the handlers of the same fingerprint that were running when each handler started
    insertedAt,   \* fingerprint in the cache -> the time its entry was put into the map
    removed       \* the fingerprints the sweeper's last pass removed

vars == <<traffic, clock, ticks, cache, lockHolder, waiters, pc, req, req_hash, response, cached,
          result, spc, now, sent, via, inFlightAtStart,
          insertedAt, removed>>

----------------------------------------------------------------------------
(* Bounds of the model *)

MaxRequests == 2
MaxTicks == 2
HashModulus == 65536

(* Program constants *)

TTL == 30
SweepInterval == 1
BAD_REQUEST == 400

Handlers == 1..MaxRequests
Sweeper == 0
Unlocked == -1
None == [kind |-> "None"]
Ok(r) == [kind |-> "Ok", response |-> r]
Err == [kind |-> "Err"]
Panic == [kind |-> "Panic"]

----------------------------------------------------------------------------
(* Requests and responses *)

HdrOriginA == <<"origin", "http://a">>
HdrOriginB == <<"origin", "http://b">>
HdrOriginBad == <<"origin", "http://a b">>
HdrAccept == <<"accept", "t">>
HdrHost == <<"host", "h">>

Request(headers) ==
    [method |-> "GET", uri |-> "/x", version |-> "HTTP/1.1",
     headers |-> headers, body |-> "Empty"]

ReqGood == Request(<<HdrOriginA>>)
ReqNoOrigin == Request(<<HdrAccept>>)
ReqBadOrigin == Request(<<HdrOriginBad>>)
\* Two Origin values and another header, on a request target in authority
\* form, which has no path-and-query.
ReqTwoOrigins == [Request(<<HdrAccept, HdrOriginA, HdrOriginB>>) EXCEPT !.uri = "a:1"]
\* ReqGood with another Origin value.
ReqOther == Request(<<HdrOriginB>>)
\* The same two headers, received in the two orders.
ReqAcceptHost == Request(<<HdrAccept, HdrHost>>)
ReqHostAccept == Request(<<HdrHost, HdrAccept>>)

\* The requests the clients of one run send: of one kind, or of two.
Traffic ==
    { {ReqNoOrigin, ReqBadOrigin},
      {ReqGood, ReqOther},
      {ReqAcceptHost, ReqHostAccept},
      {ReqTwoOrigins} }

Requests == UNION Traffic

\* Two kinds that differ only by a renaming (of the Origin value, of the
\* order of the headers) are handled alike, so the runs that open with the
\* one are mirror images of the runs that open with the other: of those the
\* model follows the runs that open with the first kind.  Any request of the
\* run may open the others.
Opening ==
    [t \in Traffic |->
        IF t = {ReqGood, ReqOther} THEN {ReqGood}
        ELSE IF t = {ReqAcceptHost, ReqHostAccept} THEN {ReqAcceptHost}
        ELSE t]

Response(status, headers, body) ==
    [status |-> status, version |-> "HTTP/1.1", headers |-> headers, body |-> body]

UpstreamResponses ==
    { Response(200, <<<<"content-type", "t">>>>, "hello"),
      Response(500, <<>>, "oops") }

\* Response::default(), whose status was never set to BAD_REQUEST.
DefaultResponse == Response(200, <<>>, "")

\* proxy: Response::default() with the status set to BAD_REQUEST.
BadRequestResponse == Response(BAD_REQUEST, <<>>, "")

----------------------------------------------------------------------------
(* The fingerprint: calculate_hash(&format!("{:?}", req)) *)

\* The characters header values, URIs and the Debug output are written in.
\* They are the visible ASCII characters of this model.
Alphabet ==
    " \"(),-./0123456789:ABCDEFGHIJKLMNOPQRSTUVWXYZabcdefghijklmnopqrstuvwxyz{}"

CharAt(s, i) == SubSeq(s, i, i)

CharCode(c) == CHOOSE i \in 1..Len(Alphabet) : CharAt(Alphabet, i) = c

\* HeaderMap's Debug: a map of "name": "value" entries in iteration order.
RECURSIVE DebugHeaderEntries(_)
DebugHeaderEntries(headers) ==
    IF headers = <<>> THEN ""
    ELSE "\"" \o Head(headers)[1] \o "\": \"" \o Head(headers)[2] \o "\""
         \o (IF Len(headers) > 1 THEN ", " ELSE "")
         \o DebugHeaderEntries(Tail(headers))

\* hyper::Body's Debug names the kind of body and never its bytes.
DebugBody(body) == "Body(" \o body \o ")"

\* http::Request's Debug: method, uri, version, headers, body.
DebugFmt(r) ==
    "Request { method: " \o r.method \o ", uri: " \o r.uri
    \o ", version: " \o r.version
    \o ", headers: {" \o DebugHeaderEntries(r.headers) \o "}"
    \o ", body: " \o DebugBody(r.body) \o " }"

\* DefaultHasher over the string, as a rolling hash of HashModulus values.
RECURSIVE HashFrom(_, _, _)
HashFrom(s, i, h) ==
    IF i > Len(s) \/ h < 0 THEN h
    ELSE HashFrom(s, i + 1, (h * 31 + CharCode(CharAt(s, i))) % HashModulus)

calculate_hash(t) == HashFrom(t, 1, 7)

\* Fingerprints taken from the request as it is after proxy has removed the
\* Origin header.
FingerprintWithoutOrigin ==
    [r \in Requests |->
        calculate_hash(DebugFmt(
            [r EXCEPT !.headers = SelectSeq(r.headers, LAMBDA p : p[1] # "origin")]))]

\* The fingerprints of the model's requests, computed once.
Fingerprint == [r \in Requests |-> calculate_hash(DebugFmt(r))]

Fingerprints == {Fingerprint[r] : r \in Requests}

----------------------------------------------------------------------------
(* Controller::proxy: the Origin header and the outbound URI *)

HeaderNames(headers) == {headers[i][1] : i \in 1..Len(headers)}

HasOrigin(r) == "origin" \in HeaderNames(r.headers)

\* HeaderMap::remove("Origin") returns the first value stored under the name ...
FirstOrigin(headers) ==
    headers[CHOOSE i \in 1..Len(headers) :
                /\ headers[i][1] = "origin"
                /\ \A j \in 1..(i - 1) : headers[j][1] # "origin"][2]

\* A removal that takes out only the first value of the header and leaves
\* the others in the map.
RECURSIVE RemoveFirstOrigin(_)
RemoveFirstOrigin(headers) ==
    IF headers = <<>> THEN <<>>
    ELSE IF Head(headers)[1] = "origin" THEN Tail(headers)
    ELSE <<Head(headers)>> \o RemoveFirstOrigin(Tail(headers))

\* ... and takes every value of the name out of the map.
RemoveOrigin(headers) == SelectSeq(headers, LAMBDA h : h[1] # "origin")

\* HeaderValue::to_str succeeds on visible ASCII only.
to_str_ok(v) == \A i \in 1..Len(v) : \E k \in 1..Len(Alphabet) : CharAt(v, i) = CharAt(Alphabet, k)

\* The characters http::Uri accepts: not the space, the quote or the braces.
UriChars == "(),-./0123456789:ABCDEFGHIJKLMNOPQRSTUVWXYZabcdefghijklmnopqrstuvwxyz"

\* Uri::from_str: every character is a URI character, and the string is a
\* path, or a scheme followed by :// and an authority.
parse_ok(s) ==
    /\ Len(s) > 0
    /\ \A i \in 1..Len(s) : \E k \in 1..Len(UriChars) : CharAt(s, i) = CharAt(UriChars, k)
    /\ \/ CharAt(s, 1) = "/"
       \/ \E i \in 2..(Len(s) - 3) : SubSeq(s, i, i + 2) = "://"

\* req.uri().path_and_query().map(|x| x.as_str()).unwrap_or("/")
PathAndQuery(uri) == IF uri # "" /\ CharAt(uri, 1) = "/" THEN uri ELSE "/"

\* An outbound URI made of the Origin value alone.
uri_string_without_path(r) == FirstOrigin(r.headers)

\* format!("{}{}", origin, path_and_query)
uri_string(r) == FirstOrigin(r.headers) \o PathAndQuery(r.uri)

\* The request handed to self.client.request.
Outbound(r) ==
    [r EXCEPT !.headers = RemoveOrigin(r.headers), !.uri = uri_string(r)]

\* What proxy does with a request up to its first await: it answers 400
\* itself, panics in one of the two unwraps, or submits the rewritten request.
proxy(r) ==
    IF ~HasOrigin(r) THEN [kind |-> "BadRequest"]
    ELSE IF ~to_str_ok(FirstOrigin(r.headers)) THEN [kind |-> "Panic"]
    ELSE IF ~parse_ok(uri_string(r)) THEN [kind |-> "Panic"]
    ELSE [kind |-> "Send", request |-> Outbound(r)]

\* proxy on the model's requests, computed once.
Proxied == [r \in Requests |-> proxy(r)]

----------------------------------------------------------------------------
(* The cache *)

\* The entry's expiry is compared with the expiry a new entry would get.
FreshForAnotherTTL(entry, t) == entry.expiry > t + TTL

\* An entry is served up to and including the instant it expires.
FreshAtExpiry(entry, t) == entry.expiry >= t

\* process: cached_response.expiry > SystemTime::now()
Fresh(entry, t) == entry.expiry > t

\* process: the Response built from a cached entry
FromCached(entry) ==
    [status |-> entry.status, version |-> entry.version,
     headers |-> entry.headers, body |-> entry.body]

\* An entry that keeps the status line and the body and drops the headers.
MakeCachedWithoutHeaders(r, t) ==
    [status |-> r.status, version |-> r.version, headers |-> <<>>,
     body |-> r.body, expiry |-> t + TTL]

\* An entry that lives one second longer than TTL.
MakeCachedLongLived(r, t) ==
    [status |-> r.status, version |-> r.version, headers |-> r.headers,
     body |-> r.body, expiry |-> t + TTL + 1]

\* process: CachedResponse { status, version, headers, body, expiry: now + TTL }
MakeCached(r, t) ==
    [status |-> r.status, version |-> r.version, headers |-> r.headers,
     body |-> r.body, expiry |-> t + TTL]

\* HashMap::insert
Put(c, k, v) == [x \in DOMAIN c \cup {k} |-> IF x = k THEN v ELSE c[x]]

\* clear_expired_cache: retain(|_, cached| cached.expiry > now)
\* A retain that keeps an entry through the instant of its expiry.
RetainThroughExpiry(c, t) == [x \in {k \in DOMAIN c : c[k].expiry >= t} |-> c[x]]

Retain(c, t) == [x \in {k \in DOMAIN c : c[k].expiry > t} |-> c[x]]

Empty == [x \in {} |-> None]

----------------------------------------------------------------------------
(* The tokio Mutex around the cache.  lock().await takes the lock at once
   when it is free and nobody waits, and otherwise queues; dropping the guard
   hands the lock to the first waiter. *)

HolderAfterLock(t) == IF lockHolder = Unlocked THEN t ELSE lockHolder

WaitersAfterLock(t) == IF lockHolder = Unlocked THEN waiters ELSE Append(waiters, t)

HolderAfterUnlock == IF waiters = <<>> THEN Unlocked ELSE Head(waiters)

WaitersAfterUnlock == IF waiters = <<>> THEN waiters ELSE Tail(waiters)

----------------------------------------------------------------------------
(* The initial state: Controller::new, no request yet, the sweeper about to
   start its first pass *)

Init ==
    /\ traffic \in Traffic
    /\ clock = 0
    /\ ticks = 0
    /\ cache = Empty
    /\ lockHolder = Unlocked
    /\ waiters = <<>>
    /\ pc = [h \in Handlers |-> "idle"]
    /\ req = [h \in Handlers |-> None]
    /\ req_hash = [h \in Handlers |-> 0]
    /\ response = [h \in Handlers |-> None]
    /\ cached = [h \in Handlers |-> None]
    /\ result = [h \in Handlers |-> None]
    /\ spc = "ready"
    /\ now = 0
    /\ sent = [h \in Handlers |-> <<>>]
    /\ via = [h \in Handlers |-> "none"]
    /\ inFlightAtStart = [h \in Handlers |-> {}]
    /\ insertedAt = Empty
    /\ removed = {}

InFlight == {h \in Handlers : pc[h] \notin {"idle", "returned", "panicked"}}

clockVars == <<traffic, clock, ticks>>
lockVars == <<lockHolder, waiters>>
sweeperVars == <<spc, now, removed>>

----------------------------------------------------------------------------
(* Controller::process *)

\* A request arrives: the fingerprint is computed and the handler asks for
\* the cache lock.  Handlers are numbered in the order their requests arrive.
Arrive(h, r) ==
    /\ pc[h] = "idle"
    /\ \A g \in Handlers : g < h => pc[g] # "idle"
    /\ h = 1 => r \in Opening[traffic]
    /\ req' = [req EXCEPT ![h] = r]
    /\ req_hash' = [req_hash EXCEPT ![h] = Fingerprint[r]]
    /\ lockHolder' = HolderAfterLock(h)
    /\ waiters' = WaitersAfterLock(h)
    /\ pc' = [pc EXCEPT ![h] = "lookup"]
    /\ inFlightAtStart' = [inFlightAtStart EXCEPT ![h] =
                              {g \in InFlight : req_hash[g] = Fingerprint[r]}]
    /\ UNCHANGED <<clockVars, cache, response, cached, result,
                   sweeperVars, sent, via, insertedAt>>

\* The lookup under the lock, at the time sampled there: is there an entry
\* for the fingerprint that has not expired?
Hit(h) == req_hash[h] \in DOMAIN cache /\ Fresh(cache[req_hash[h]], clock)

\* What a lookup that does not answer found.
Missed(h) == IF req_hash[h] \in DOMAIN cache THEN "stale" ELSE "absent"

\* A lookup block whose guard outlives it.
KeepGuard == UNCHANGED <<lockHolder, waiters>>

\* The guard is dropped at the end of the lookup block.
DropGuard ==
    /\ lockHolder' = HolderAfterUnlock
    /\ waiters' = WaitersAfterUnlock

\* A hit that renews the entry it serves (a sliding expiry).
LookupHitRefreshing(h) ==
    /\ pc[h] = "lookup"
    /\ lockHolder = h
    /\ Hit(h)
    /\ DropGuard
    /\ cache' = [cache EXCEPT ![req_hash[h]].expiry = clock + TTL]
    /\ result' = [result EXCEPT ![h] = Ok(FromCached(cache[req_hash[h]]))]
    /\ via' = [via EXCEPT ![h] = "hit"]
    /\ pc' = [pc EXCEPT ![h] = "returned"]
    /\ UNCHANGED <<clockVars, req, req_hash, response, cached,
                   sweeperVars, sent, inFlightAtStart, insertedAt>>

\* A fresh entry answers the request: Ok(response built from the entry).
LookupHit(h) ==
    /\ pc[h] = "lookup"
    /\ lockHolder = h
    /\ Hit(h)
    /\ DropGuard
    /\ result' = [result EXCEPT ![h] = Ok(FromCached(cache[req_hash[h]]))]
    /\ via' = [via EXCEPT ![h] = "hit"]
    /\ pc' = [pc EXCEPT ![h] = "returned"]
    /\ UNCHANGED <<clockVars, cache, req, req_hash, response, cached,
                   sweeperVars, sent, inFlightAtStart, insertedAt>>

\* No fresh entry, and proxy finds no Origin header: Ok(bad_request), which
\* process goes on to buffer.
MissBadRequest(h) ==
    /\ pc[h] = "lookup"
    /\ lockHolder = h
    /\ ~Hit(h)
    /\ Proxied[req[h]].kind = "BadRequest"
    /\ DropGuard
    /\ via' = [via EXCEPT ![h] = Missed(h)]
    /\ response' = [response EXCEPT ![h] = BadRequestResponse]
    /\ pc' = [pc EXCEPT ![h] = "to_bytes"]
    /\ UNCHANGED <<clockVars, cache, req, req_hash, cached, result,
                   sweeperVars, sent, inFlightAtStart, insertedAt>>

\* No fresh entry, and proxy finds an Origin value that to_str().unwrap() or
\* parse().unwrap() rejects: the handler's task panics.
MissPanic(h) ==
    /\ pc[h] = "lookup"
    /\ lockHolder = h
    /\ ~Hit(h)
    /\ Proxied[req[h]].kind = "Panic"
    /\ DropGuard
    /\ via' = [via EXCEPT ![h] = Missed(h)]
    /\ result' = [result EXCEPT ![h] = Panic]
    /\ pc' = [pc EXCEPT ![h] = "panicked"]
    /\ UNCHANGED <<clockVars, cache, req, req_hash, response, cached,
                   sweeperVars, sent, inFlightAtStart, insertedAt>>

\* A miss that takes the stale entry it found out of the map.
MissSendEvicting(h) ==
    /\ pc[h] = "lookup"
    /\ lockHolder = h
    /\ ~Hit(h)
    /\ Proxied[req[h]].kind = "Send"
    /\ DropGuard
    /\ cache' = [k \in DOMAIN cache \ {req_hash[h]} |-> cache[k]]
    /\ insertedAt' = [k \in DOMAIN insertedAt \ {req_hash[h]} |-> insertedAt[k]]
    /\ via' = [via EXCEPT ![h] = Missed(h)]
    /\ sent' = [sent EXCEPT ![h] = Append(sent[h], Proxied[req[h]].request)]
    /\ pc' = [pc EXCEPT ![h] = "upstream"]
    /\ UNCHANGED <<clockVars, req, req_hash, response, cached,
                   result, sweeperVars, inFlightAtStart>>

\* A miss whose guard is still held when the request goes upstream.
MissSendKeepingGuard(h) ==
    /\ pc[h] = "lookup"
    /\ lockHolder = h
    /\ ~Hit(h)
    /\ Proxied[req[h]].kind = "Send"
    /\ via' = [via EXCEPT ![h] = Missed(h)]
    /\ sent' = [sent EXCEPT ![h] = Append(sent[h], Proxied[req[h]].request)]
    /\ pc' = [pc EXCEPT ![h] = "upstream"]
    /\ UNCHANGED <<clockVars, cache, lockVars, req, req_hash, response, cached,
                   result, sweeperVars, inFlightAtStart, insertedAt>>

\* No fresh entry, and proxy finds a usable Origin value: the rewritten
\* request is submitted to the client, and the handler awaits the upstream.
MissSend(h) ==
    /\ pc[h] = "lookup"
    /\ lockHolder = h
    /\ ~Hit(h)
    /\ Proxied[req[h]].kind = "Send"
    /\ DropGuard
    /\ via' = [via EXCEPT ![h] = Missed(h)]
    /\ sent' = [sent EXCEPT ![h] = Append(sent[h], Proxied[req[h]].request)]
    /\ pc' = [pc EXCEPT ![h] = "upstream"]
    /\ UNCHANGED <<clockVars, cache, req, req_hash, response, cached,
                   result, sweeperVars, inFlightAtStart, insertedAt>>

\* self.client.request(req).await yields a response ...
UpstreamRespond(h, r) ==
    /\ pc[h] = "upstream"
    /\ response' = [response EXCEPT ![h] = r]
    /\ pc' = [pc EXCEPT ![h] = "to_bytes"]
    /\ UNCHANGED <<clockVars, cache, lockVars, req, req_hash, cached, result,
                   sweeperVars, sent, via, inFlightAtStart, insertedAt>>

\* An upstream error answered from the entry the lookup found expired, when
\* there is one (serve stale on error).
UpstreamFailServingStale(h) ==
    /\ pc[h] = "upstream"
    /\ result' = [result EXCEPT ![h] =
                      IF req_hash[h] \in DOMAIN cache
                      THEN Ok(FromCached(cache[req_hash[h]])) ELSE Err]
    /\ pc' = [pc EXCEPT ![h] = "returned"]
    /\ UNCHANGED <<clockVars, cache, lockVars, req, req_hash, response, cached,
                   sweeperVars, sent, via, inFlightAtStart, insertedAt>>

\* ... or an error, which `?` returns from proxy and from process.
UpstreamFail(h) ==
    /\ pc[h] = "upstream"
    /\ result' = [result EXCEPT ![h] = Err]
    /\ pc' = [pc EXCEPT ![h] = "returned"]
    /\ UNCHANGED <<clockVars, cache, lockVars, req, req_hash, response, cached,
                   sweeperVars, sent, via, inFlightAtStart, insertedAt>>

\* hyper::body::to_bytes(body).await succeeds: the entry is built with the
\* time sampled now, and the handler asks for the cache lock.
ToBytesOk(h) ==
    /\ pc[h] = "to_bytes"
    /\ cached' = [cached EXCEPT ![h] = MakeCached(response[h], clock)]
    /\ lockHolder' = HolderAfterLock(h)
    /\ waiters' = WaitersAfterLock(h)
    /\ pc' = [pc EXCEPT ![h] = "insert"]
    /\ UNCHANGED <<clockVars, cache, req, req_hash, response, result,
                   sweeperVars, sent, via, inFlightAtStart, insertedAt>>

\* to_bytes fails while reading the upstream's body: `?` returns the error.
\* The bad-request response has an empty body, which cannot fail.
ToBytesFail(h) ==
    /\ pc[h] = "to_bytes"
    /\ sent[h] # <<>>
    /\ result' = [result EXCEPT ![h] = Err]
    /\ response' = [response EXCEPT ![h] = None]
    /\ pc' = [pc EXCEPT ![h] = "returned"]
    /\ UNCHANGED <<clockVars, cache, lockVars, req, req_hash, cached,
                   sweeperVars, sent, via, inFlightAtStart, insertedAt>>

\* An insert that keeps the entry already in the map (first writer wins).
InsertIfAbsent(h) ==
    /\ pc[h] = "insert"
    /\ lockHolder = h
    /\ cache' = IF req_hash[h] \in DOMAIN cache THEN cache
                ELSE Put(cache, req_hash[h], cached[h])
    /\ insertedAt' = IF req_hash[h] \in DOMAIN cache THEN insertedAt
                     ELSE Put(insertedAt, req_hash[h], clock)
    /\ lockHolder' = HolderAfterUnlock
    /\ waiters' = WaitersAfterUnlock
    /\ result' = [result EXCEPT ![h] = Ok(response[h])]
    /\ response' = [response EXCEPT ![h] = None]
    /\ pc' = [pc EXCEPT ![h] = "returned"]
    /\ UNCHANGED <<clockVars, req, req_hash, cached, sweeperVars, sent, via,
                   inFlightAtStart>>

\* insert(req_hash, cached); the guard is dropped; Ok(response) is returned.
Insert(h) ==
    /\ pc[h] = "insert"
    /\ lockHolder = h
    /\ cache' = Put(cache, req_hash[h], cached[h])
    /\ insertedAt' = Put(insertedAt, req_hash[h], clock)
    /\ lockHolder' = HolderAfterUnlock
    /\ waiters' = WaitersAfterUnlock
    /\ result' = [result EXCEPT ![h] = Ok(response[h])]
    /\ response' = [response EXCEPT ![h] = None]
    /\ pc' = [pc EXCEPT ![h] = "returned"]
    /\ UNCHANGED <<clockVars, req, req_hash, cached, sweeperVars, sent, via,
                   inFlightAtStart>>

----------------------------------------------------------------------------
(* Controller::clear_expired_cache *)

\* The loop body starts: now is sampled and the sweeper asks for the cache
\* lock.
SweepSample ==
    /\ spc = "ready"
    /\ now' = clock
    /\ lockHolder' = HolderAfterLock(Sweeper)
    /\ waiters' = WaitersAfterLock(Sweeper)
    /\ spc' = "retain"
    /\ removed' = {}
    /\ UNCHANGED <<clockVars, cache, pc, req, req_hash, response,
                   cached, result, sent, via, inFlightAtStart, insertedAt>>

\* retain under the lock; the guard is dropped; the sleep of SweepInterval
\* starts.
SweepRetain ==
    /\ spc = "retain"
    /\ lockHolder = Sweeper
    /\ cache' = Retain(cache, now)
    /\ removed' = DOMAIN cache \ DOMAIN Retain(cache, now)
    /\ lockHolder' = HolderAfterUnlock
    /\ waiters' = WaitersAfterUnlock
    /\ insertedAt' = [k \in DOMAIN Retain(cache, now) |-> insertedAt[k]]
    /\ now' = 0
    /\ spc' = "sleep"
    /\ UNCHANGED <<clockVars, pc, req, req_hash, response, cached,
                   result, sent, via, inFlightAtStart>>

----------------------------------------------------------------------------
(* Time *)

\* The instants the model looks at: the clock moves by one second, then to
\* one second short of a TTL later, and so on: 0, 1, 30, 31, 60, ...
TickStep(n) == IF n % 2 = 0 THEN SweepInterval ELSE TTL - SweepInterval

\* Time passes, and a sweeper that sleeps is never woken.
TickWithoutWake ==
    /\ ticks < MaxTicks
    /\ clock' = clock + TickStep(ticks)
    /\ ticks' = ticks + 1
    /\ UNCHANGED <<traffic, cache, lockVars, pc, req, req_hash, response, cached,
                   result, sweeperVars, sent, via, inFlightAtStart, insertedAt>>

\* Time passes.  A sleeping sweeper's timer fires once SweepInterval has
\* gone by.
Tick ==
    /\ ticks < MaxTicks
    /\ clock' = clock + TickStep(ticks)
    /\ ticks' = ticks + 1
    /\ spc' = IF spc = "sleep" /\ TickStep(ticks) >= SweepInterval THEN "ready" ELSE spc
    /\ UNCHANGED <<traffic, cache, lockVars, pc, req, req_hash, response, cached,
                   result, now, removed, sent, via, inFlightAtStart, insertedAt>>

----------------------------------------------------------------------------

Next ==
    \/ \E h \in Handlers, r \in traffic : Arrive(h, r)
    \/ \E h \in Handlers : LookupHit(h)
    \/ \E h \in Handlers : MissBadRequest(h)
    \/ \E h \in Handlers : MissPanic(h)
    \/ \E h \in Handlers : MissSend(h)
    \/ \E h \in Handlers, r \in UpstreamResponses : UpstreamRespond(h, r)
    \/ \E h \in Handlers : UpstreamFail(h)
    \/ \E h \in Handlers : ToBytesOk(h)
    \/ \E h \in Handlers : ToBytesFail(h)
    \/ \E h \in Handlers : Insert(h)
    \/ SweepSample
    \/ SweepRetain
    \/ Tick

Spec == Init /\ [][Next]_vars

\* The tokio scheduler polls every task that is ready, so a task that holds
\* the cache lock runs its critical section and drops the guard.
FairSpec ==
    /\ Spec
    /\ \A h \in Handlers :
          /\ WF_vars(LookupHit(h)) /\ WF_vars(MissBadRequest(h))
          /\ WF_vars(MissPanic(h)) /\ WF_vars(MissSend(h))
          /\ WF_vars(Insert(h))
    /\ WF_vars(SweepRetain)

\* The scheduler of FairSpec, with a sweeper that is polled when it is ready
\* to start a pass, and time that advances as far as the model follows it.
SweepFairSpec ==
    /\ FairSpec
    /\ WF_vars(SweepSample)
    /\ WF_vars(Tick)

----------------------------------------------------------------------------
(* Properties *)

Started == {h \in Handlers : pc[h] # "idle"}

\* Handler h takes a step.
Steps(h) == pc'[h] # pc[h]

\* The model's requests have distinct fingerprints unless their Debug output
\* is the same.
NoCollision ==
    \A r1, r2 \in Requests : Fingerprint[r1] = Fingerprint[r2] => DebugFmt(r1) = DebugFmt(r2)

\* C1: no step of a handler whose request has no Origin header changes the
\* cache (the 400 response is not stored).
C1_NoOriginLeavesCache ==
    [][\A h \in Started : (~HasOrigin(req[h]) /\ Steps(h)) => cache' = cache]_vars

\* C2: a request without the Origin header is never submitted upstream, and
\* whenever its handler ends it has returned Ok with status 400 and an empty
\* body, whether it was answered by proxy or from the cache.
C2_NoOriginIs400 ==
    \A h \in Started :
        ~HasOrigin(req[h]) =>
            /\ sent[h] = <<>>
            /\ pc[h] # "panicked"
            /\ pc[h] = "returned" =>
                    /\ result[h].kind = "Ok"
                    /\ result[h].response.status = 400
                    /\ result[h].response.body = ""

\* C2 witness: one request without Origin was answered by proxy and a later
\* one from the cache.
C2_Witness ==
    \E h, g \in Started :
        /\ ~HasOrigin(req[h]) /\ ~HasOrigin(req[g])
        /\ pc[h] = "returned" /\ via[h] = "absent"
        /\ pc[g] = "returned" /\ via[g] = "hit"

\* C3 as stated: an entry that was put into the map at time T is returned
\* by every lookup of its fingerprint at a time in [T, T+TTL), and is treated
\* as absent by every lookup at or after T+TTL.
C3_FreshFromInsert ==
    [][\A h \in Started :
          (pc[h] = "lookup" /\ Steps(h) /\ req_hash[h] \in DOMAIN cache) =>
              LET T == insertedAt[req_hash[h]]
                  hit == via'[h] = "hit" /\ pc'[h] = "returned"
              IN  /\ (T <= clock /\ clock < T + TTL) =>
                          hit /\ result'[h] = Ok(FromCached(cache[req_hash[h]]))
                  /\ clock >= T + TTL => ~hit]_vars

\* C3 amended: T is the time the handler sampled after buffering the body,
\* from which the entry's expiry T+TTL was computed; the entry reaches the
\* map at T or later.  A lookup that finds the entry returns its status,
\* version, headers and body when the time is before T+TTL, and treats it as
\* absent when the time is T+TTL or later.
C3_FreshFromSample ==
    [][\A h \in Started :
          (pc[h] = "lookup" /\ Steps(h) /\ req_hash[h] \in DOMAIN cache) =>
              LET e == cache[req_hash[h]]
                  T == e.expiry - TTL
                  hit == via'[h] = "hit" /\ pc'[h] = "returned"
              IN  /\ T <= insertedAt[req_hash[h]]
                  /\ clock < T + TTL =>
                          /\ hit
                          /\ result'[h].kind = "Ok"
                          /\ result'[h].response.status = e.status
                          /\ result'[h].response.version = e.version
                          /\ result'[h].response.headers = e.headers
                          /\ result'[h].response.body = e.body
                  /\ clock >= T + TTL =>
                          ~hit /\ via'[h] = "stale"]_vars

\* C3 witness: an entry that reached the map later than its sample was
\* served in the last second before its expiry.
C3_Witness ==
    \E h \in Started :
        /\ pc[h] = "returned" /\ via[h] = "hit"
        /\ req_hash[h] \in DOMAIN cache
        /\ cache[req_hash[h]].expiry = clock + 1
        /\ insertedAt[req_hash[h]] > cache[req_hash[h]].expiry - TTL
        /\ result[h] = Ok(FromCached(cache[req_hash[h]]))

\* The handlers given a request with the fingerprint of handler h's.
SameFingerprint(h) == {g \in Started : req_hash[g] = req_hash[h]}

\* Handler f is the first of a run of identical requests handled one after
\* another: it missed, its upstream call succeeded and it stored the entry;
\* no request of its fingerprint started while another was being handled;
\* and the time is still before the expiry of the entry it stored.
SequentialWithinTTL(f) ==
    /\ pc[f] = "returned" /\ result[f].kind = "Ok"
    /\ Len(sent[f]) = 1
    /\ \A g \in SameFingerprint(f) : g >= f /\ inFlightAtStart[g] = {}
    /\ clock < cached[f].expiry

C5_FailureLeavesCache ==
    [][\A h \in Started :
          /\ (pc[h] \in {"upstream", "to_bytes"} /\ pc'[h] = "returned") =>
                /\ result'[h] = Err
                /\ cache' = cache
                /\ Len(sent[h]) = 1 /\ sent'[h] = sent[h]
          /\ pc[h] = "returned" =>
                /\ pc'[h] = "returned"
                /\ result'[h] = result[h]
                /\ sent'[h] = sent[h]]_vars

\* C5 witness: a request that found a stale entry failed at the upstream or
\* while buffering; the stale entry is still in the map.
C5_Witness ==
    \E h \in Started :
        /\ pc[h] = "returned" /\ result[h] = Err
        /\ via[h] = "stale" /\ Len(sent[h]) = 1
        /\ req_hash[h] \in DOMAIN cache
        /\ cache[req_hash[h]].expiry <= clock

\* The Origin value of the request cannot be turned into an outbound URI.
MalformedOrigin(r) == HasOrigin(r) /\ ~parse_ok(uri_string(r))

\* C6: a request whose Origin value is malformed is answered like one without
\* Origin: the handler does not crash, nothing is sent upstream, and when the
\* handler ends it has returned Ok with status 400.
C6_MalformedOriginIs400 ==
    \A h \in Started :
        MalformedOrigin(req[h]) =>
            /\ pc[h] # "panicked"
            /\ sent[h] = <<>>
            /\ pc[h] = "returned" =>
                    result[h].kind = "Ok" /\ result[h].response.status = 400

\* C7: no request submitted to the client carries an origin header, whatever
\* number of Origin values the incoming request had.
C7_NoOriginUpstream ==
    \A h \in Started :
        \A i \in 1..Len(sent[h]) : "origin" \notin HeaderNames(sent[h][i].headers)

\* C7 witness: a request with two Origin values has been submitted upstream.
C7_Witness ==
    \E h \in Started :
        /\ Cardinality({i \in 1..Len(req[h].headers) : req[h].headers[i][1] = "origin"}) = 2
        /\ Len(sent[h]) = 1

\* C8: the step that answers a request from the cache leaves the cache as it
\* was, so every entry keeps the expiry it was inserted with.
C8_HitLeavesCache ==
    [][\A h \in Started : (Steps(h) /\ via'[h] = "hit") => cache' = cache]_vars

\* C8 witness: a request was answered from an entry at a later time than the
\* entry was built, and the entry still has the expiry it was built with.
C8_Witness ==
    \E h, f \in Started :
        /\ pc[h] = "returned" /\ via[h] = "hit"
        /\ f # h /\ req_hash[f] = req_hash[h] /\ pc[f] = "returned"
        /\ req_hash[h] \in DOMAIN cache
        /\ cache[req_hash[h]] = cached[f]
        /\ clock > cached[f].expiry - TTL

\* C9: the retain step of a sweep that sampled `now` removes exactly the
\* entries whose expiry is <= now: right after it no such entry is in the
\* map, and every entry with expiry > now is there, unmodified.
C9_SweepRemovesExpired ==
    [][(spc = "retain" /\ spc' = "sleep") =>
          /\ DOMAIN cache' = {k \in DOMAIN cache : cache[k].expiry > now}
          /\ \A k \in DOMAIN cache' : cache'[k] = cache[k]
          /\ removed' = {k \in DOMAIN cache : cache[k].expiry <= now}]_vars

\* C9 witness: a sweep that sampled the very instant an entry expired has
\* removed that entry and kept another one.
C9_Witness ==
    /\ spc = "sleep" /\ removed # {} /\ cache # Empty
    /\ clock = TTL
    /\ \E h \in Started : req_hash[h] \in removed /\ cached[h].expiry = clock

\* The tasks that take the cache lock.
Tasks == Handlers \cup {Sweeper}

\* Task t has asked for the cache lock and has not been granted it.
Waiting(t) == \E i \in 1..Len(waiters) : waiters[i] = t

\* C10: no interleaving of handlers and the sweeper deadlocks: a task that
\* waits for the cache lock eventually holds it, a handler at its lookup or
\* its insert eventually leaves it, and a request whose upstream answered and
\* whose body was buffered eventually completes with Ok(response).
C10_NoDeadlock ==
    /\ \A t \in Tasks : Waiting(t) ~> (lockHolder = t /\ ~Waiting(t))
    /\ \A h \in Handlers : (pc[h] = "lookup") ~> (pc[h] # "lookup")
    /\ \A h \in Handlers : (pc[h] = "insert") ~> (pc[h] = "returned" /\ result[h].kind = "Ok")
    /\ (spc = "retain") ~> (spc = "sleep")

\* C10 witness: one handler holds the lock for its insert while another
\* handler waits for its lookup and the sweeper waits for its retain.
C10_Witness ==
    /\ lockHolder \in Handlers /\ pc[lockHolder] = "insert"
    /\ Waiting(Sweeper)
    /\ \E h \in Handlers : Waiting(h) /\ pc[h] = "lookup"

\* C11: a handler that awaits the upstream or buffers the body neither holds
\* the cache lock nor waits for it, so whoever holds the lock then is a task
\* in its lookup, insert or retain, none of which awaits the upstream.
C11_NoLockAcrossUpstream ==
    \A h \in Started :
        pc[h] \in {"upstream", "to_bytes"} =>
            /\ lockHolder # h
            /\ ~Waiting(h)
            /\ lockHolder \in Handlers => pc[lockHolder] \in {"lookup", "insert"}
            /\ lockHolder = Sweeper => spc = "retain"

\* C11 witness: while one handler still awaits the upstream, a request that
\* arrived after it has done its lookup, its upstream call and its insert.
C11_Witness ==
    \E h, g \in Started :
        /\ pc[h] = "upstream"
        /\ g > h /\ pc[g] = "returned" /\ result[g].kind = "Ok" /\ Len(sent[g]) = 1
        /\ req_hash[g] \in DOMAIN cache

\* C12: misses are not de-duplicated and the last insert wins.  A handler
\* whose lookup misses submits its own request upstream, whatever other
\* handlers of the same fingerprint are doing; the insert of a handler makes
\* the entry of its fingerprint the one that handler built, whatever was
\* there, and touches no other entry; no other step of a handler changes the
\* map.  So the entry is always the one of the insert performed last.
C12_LastWriterWins ==
    [][\A h \in Started :
          Steps(h) =>
              /\ (pc[h] = "lookup" /\ via'[h] # "hit" /\ Proxied[req[h]].kind = "Send") =>
                    /\ pc'[h] = "upstream"
                    /\ Len(sent'[h]) = Len(sent[h]) + 1
              /\ pc[h] = "insert" =>
                    /\ DOMAIN cache' = DOMAIN cache \cup {req_hash[h]}
                    /\ cache'[req_hash[h]] = cached[h]
                    /\ \A k \in DOMAIN cache \ {req_hash[h]} : cache'[k] = cache[k]
              /\ pc[h] # "insert" => cache' = cache]_vars

\* C12 witness: two requests of one fingerprint were in flight together, both
\* missed, both went upstream and got different responses, both inserted; the
\* entry in the map is the second one's, not the first one's.
C12_Witness ==
    \E f, g \in Started :
        /\ f \in inFlightAtStart[g] /\ req_hash[f] = req_hash[g]
        /\ pc[f] = "returned" /\ pc[g] = "returned"
        /\ via[f] # "hit" /\ via[g] # "hit"
        /\ Len(sent[f]) = 1 /\ Len(sent[g]) = 1
        /\ result[f].kind = "Ok" /\ result[g].kind = "Ok"
        /\ result[f] # result[g]
        /\ req_hash[g] \in DOMAIN cache
        /\ cache[req_hash[g]] = cached[g]
        /\ cache[req_hash[g]].body # cached[f].body

\* How many times the name/value pair p occurs in the headers.
Occurrences(headers, p) == Cardinality({i \in 1..Len(headers) : headers[i] = p})

\* The two requests have the same method, target URI, version and body kind,
\* and the same header name/value pairs, in whatever order.
SameUpToHeaderOrder(r1, r2) ==
    /\ r1.method = r2.method /\ r1.uri = r2.uri
    /\ r1.version = r2.version /\ r1.body = r2.body
    /\ Len(r1.headers) = Len(r2.headers)
    /\ \A i \in 1..Len(r1.headers) :
          Occurrences(r1.headers, r1.headers[i]) = Occurrences(r2.headers, r1.headers[i])

\* C13: two requests with the same method, target URI, version and set of
\* header name/value pairs get the same fingerprint, whatever the order of
\* their headers.
C13_OrderInsensitive ==
    \A h, g \in Started :
        SameUpToHeaderOrder(req[h], req[g]) => req_hash[h] = req_hash[g]

\* The four fields of a response or of an entry.
FourFields(x) == <<x.status, x.version, x.headers, x.body>>

\* C14: on the miss path of a request that went upstream, the response the
\* upstream gave (of whatever status) is what the handler holds through the
\* buffering; the entry built when the body is buffered has its four fields
\* and expiry = the time sampled then + TTL; the insert puts that entry under
\* the request's fingerprint and returns Ok with the upstream's four fields.
C14_MissStoresAndReturnsUpstream ==
    [][\A h \in Started :
          Len(sent[h]) = 1 =>
              /\ (pc[h] = "upstream" /\ pc'[h] = "to_bytes") =>
                    response'[h] \in UpstreamResponses
              /\ (pc[h] = "to_bytes" /\ pc'[h] = "insert") =>
                    /\ response'[h] = response[h]
                    /\ FourFields(cached'[h]) = FourFields(response[h])
                    /\ cached'[h].expiry = clock + TTL
              /\ (pc[h] = "insert" /\ pc'[h] = "insert") =>
                    response'[h] = response[h] /\ cached'[h] = cached[h]
              /\ (pc[h] = "insert" /\ pc'[h] = "returned") =>
                    /\ response[h] \in UpstreamResponses
                    /\ result'[h].kind = "Ok"
                    /\ FourFields(result'[h].response) = FourFields(response[h])
                    /\ req_hash[h] \in DOMAIN cache'
                    /\ FourFields(cache'[req_hash[h]]) = FourFields(response[h])
                    /\ cache'[req_hash[h]].expiry = cached[h].expiry]_vars

\* C14 witness: a 500 response with its body was returned to the client and
\* is in the map, with an expiry TTL after a sample that preceded the insert.
C14_Witness ==
    \E h \in Started :
        /\ pc[h] = "returned" /\ via[h] # "hit" /\ Len(sent[h]) = 1
        /\ result[h].kind = "Ok" /\ result[h].response.status = 500
        /\ result[h].response.body = "oops"
        /\ req_hash[h] \in DOMAIN cache
        /\ FourFields(cache[req_hash[h]]) = FourFields(result[h].response)
        /\ cache[req_hash[h]].expiry = cached[h].expiry
        /\ insertedAt[req_hash[h]] > cached[h].expiry - TTL

\* The step is the retain of a sweeper pass.
SweepStep == spc = "retain" /\ spc' = "sleep"

\* C15: no step of a request handler removes a key.  The lookup that finds a
\* stale entry leaves the map as it is; a key leaves the map only in the
\* retain of a sweeper pass; and an entry changes only there or in the insert
\* of a handler of its fingerprint.
C15_HandlersNeverRemove ==
    [][/\ \A h \in Started :
              (pc[h] = "lookup" /\ Steps(h) /\ via'[h] = "stale") =>
                  cache' = cache /\ req_hash[h] \in DOMAIN cache'
       /\ \A k \in DOMAIN cache :
              /\ k \notin DOMAIN cache' => SweepStep
              /\ (k \in DOMAIN cache' /\ cache'[k] # cache[k]) =>
                    \E h \in Started :
                        pc[h] = "insert" /\ pc'[h] = "returned" /\ req_hash[h] = k]_vars

\* C15 witness: a handler found a stale entry, went upstream, and the stale
\* entry is still in the map while it waits.
C15_Witness ==
    \E h \in Started :
        /\ pc[h] = "upstream" /\ via[h] = "stale"
        /\ req_hash[h] \in DOMAIN cache
        /\ cache[req_hash[h]].expiry <= clock

\* A sweeper pass that samples a time >= e is still to come: the sweeper is
\* about to start a pass, or sleeps while time still advances, or is in a
\* pass that sampled e or later.
SweepDue(e) ==
    \/ spc = "ready"
    \/ spc = "sleep" /\ ticks < MaxTicks
    \/ spc = "retain" /\ now >= e

\* Every request of the run has been handled.
Quiescent == \A h \in Handlers : pc[h] \in {"returned", "panicked"}

\* The latest expiry in the map (0 when the map is empty).
LatestExpiry ==
    IF cache = Empty THEN 0
    ELSE CHOOSE e \in {cache[k].expiry : k \in DOMAIN cache} :
            \A k \in DOMAIN cache : cache[k].expiry <= e

\* C16: under fair scheduling of the sweeper and advancing time, an entry
\* whose expiry has passed is eventually removed or replaced by a later one;
\* once every request has been handled and every entry has expired the map
\* becomes empty; and the sweeper loop never ends: it is always in one of
\* its three positions, every pass completes, and every sleep is followed by
\* another pass while time advances.
C16_ExpiredEventuallyPurged ==
    /\ \A h \in Handlers :
          (/\ pc[h] = "returned" /\ req_hash[h] \in DOMAIN cache
           /\ cache[req_hash[h]] = cached[h]
           /\ cached[h].expiry <= clock /\ SweepDue(cached[h].expiry))
          ~> (\/ req_hash[h] \notin DOMAIN cache
              \/ cached[h] # None /\ cache[req_hash[h]].expiry > cached[h].expiry)
    /\ (Quiescent /\ cache # Empty /\ LatestExpiry <= clock /\ SweepDue(LatestExpiry))
          ~> (cache = Empty)
    /\ [](spc \in {"ready", "retain", "sleep"})
    /\ (spc = "ready") ~> (spc = "retain")
    /\ (spc = "retain") ~> (spc = "sleep")
    /\ (spc = "sleep" /\ ticks < MaxTicks) ~> (spc = "ready")

\* C16 witness: every request has been handled, the entries they stored have
\* expired, and a pass of the sweeper has removed the last of them.
C16_Witness ==
    /\ Quiescent
    /\ \E h \in Handlers : result[h].kind = "Ok" /\ via[h] # "hit" /\ req_hash[h] \in removed
    /\ \A h \in Handlers :
          (result[h].kind = "Ok" /\ via[h] # "hit") => cached[h].expiry <= clock
    /\ cache = Empty /\ spc = "sleep"

\* What the request submitted upstream for r has to be: the URI made of the
\* first Origin value followed by the inbound path-and-query, or by "/" when
\* the inbound target has none, and the inbound method, body and headers
\* other than Origin, in their order.  Worked out once for each request that
\* has an Origin.
ExpectedOutbound ==
    [r \in {x \in Requests : HasOrigin(x)} |->
        [uri |-> FirstOrigin(r.headers) \o (IF CharAt(r.uri, 1) = "/" THEN r.uri ELSE "/"),
         method |-> r.method,
         body |-> r.body,
         headers |-> SelectSeq(r.headers, LAMBDA p : p[1] # "origin")]]

\* C17: the request submitted upstream has the URI made of the first Origin
\* value followed by the inbound path-and-query, or by "/" when the inbound
\* target has none, and the inbound method, body and headers other than
\* Origin, in their order.
C17_OutboundRewritten ==
    \A h \in Started :
        \A i \in 1..Len(sent[h]) :
            /\ Proxied[req[h]].kind # "BadRequest"
            /\ sent[h][i].uri = ExpectedOutbound[req[h]].uri
            /\ sent[h][i].method = ExpectedOutbound[req[h]].method
            /\ sent[h][i].body = ExpectedOutbound[req[h]].body
            /\ sent[h][i].headers = ExpectedOutbound[req[h]].headers

\* C17 witness: a request whose target has no path-and-query and which has
\* an Accept header was submitted to http://a/ with the Accept header alone.
C17_Witness ==
    \E h \in Started :
        /\ req[h].uri = "a:1" /\ Len(sent[h]) = 1
        /\ sent[h][1].uri = "http://a/"
        /\ sent[h][1].headers = <<HdrAccept>>
        /\ sent[h][1].method = "GET" /\ sent[h][1].body = "Empty"
        /\ pc[h] = "returned"

\* C18: with the clock never going back, after every step (the map starts
\* empty) every entry in the map has an expiry of at most the time it was put
\* there + TTL, hence of at most the current time + TTL; the entry a handler
\* builds when the body is buffered expires at most TTL after that moment,
\* and the insert stores it as built;
\* and a response is served from an entry only before that entry's expiry,
\* that is, less than TTL after its body was buffered.
C18_BoundedStaleness ==
    [][/\ clock' >= clock
       /\ \A k \in DOMAIN cache' :
             /\ insertedAt'[k] <= clock'
             /\ cache'[k].expiry <= insertedAt'[k] + TTL
             /\ cache'[k].expiry <= clock' + TTL
       /\ \A h \in Started :
             /\ (pc[h] = "to_bytes" /\ pc'[h] = "insert") =>
                   cached'[h].expiry <= clock + TTL
             /\ (pc[h] = "insert" /\ pc'[h] = "returned") =>
                   /\ cache'[req_hash[h]].expiry = cached[h].expiry
                   /\ cache'[req_hash[h]].expiry <= clock + TTL
             /\ (Steps(h) /\ via'[h] = "hit") =>
                   /\ clock < cache[req_hash[h]].expiry
                   /\ clock - (cache[req_hash[h]].expiry - TTL) < TTL]_vars

\* C18 witness: a handler that found a stale entry has overwritten it, and
\* the new entry expires exactly TTL after the current time.
C18_Witness ==
    \E h \in Started :
        /\ pc[h] = "returned" /\ via[h] = "stale" /\ result[h].kind = "Ok"
        /\ req_hash[h] \in DOMAIN cache
        /\ cache[req_hash[h]] = cached[h]
        /\ insertedAt[req_hash[h]] = clock
        /\ cache[req_hash[h]].expiry = clock + TTL

\* The two requests are the same but for the values of their Origin headers,
\* of which at least one differs.
DifferOnlyInOrigin(r1, r2) ==
    /\ r1.method = r2.method /\ r1.uri = r2.uri
    /\ r1.version = r2.version /\ r1.body = r2.body
    /\ Len(r1.headers) = Len(r2.headers)
    /\ \A i \in 1..Len(r1.headers) :
          /\ r1.headers[i][1] = r2.headers[i][1]
          /\ r1.headers[i][1] # "origin" => r1.headers[i] = r2.headers[i]
    /\ \E i \in 1..Len(r1.headers) : r1.headers[i] # r2.headers[i]

\* Whether two of the model's requests differ only in their Origin value,
\* worked out once for each pair.
OriginVariants ==
    [r1 \in Requests |-> [r2 \in Requests |-> DifferOnlyInOrigin(r1, r2)]]

\* C19: requests that differ only in their Origin value have different
\* fingerprints, and a request with an Origin that is answered from the cache
\* gets the response some other request obtained from the very upstream URI
\* its own Origin value and path name.
C19_OriginInKey ==
    /\ \A h, g \in Started :
          (h # g /\ req_hash[h] = req_hash[g]) => ~OriginVariants[req[h]][req[g]]
    /\ \A h \in Started :
          (via[h] = "hit" /\ Proxied[req[h]].kind # "BadRequest") =>
              \E f \in Started \ {h} :
                  /\ Len(sent[f]) = 1
                  /\ sent[f][1].uri = ExpectedOutbound[req[h]].uri
                  /\ cached[f] # None
                  /\ result[h] = Ok(FromCached(cached[f]))

\* C19 witness: two requests that differ only in their Origin value were both
\* sent upstream, to different URIs, and both have their own entry in the
\* map, the second one's put there later than the first one's.
C19_Witness ==
    \E h, g \in Started :
        /\ OriginVariants[req[h]][req[g]]
        /\ h < g /\ via[g] = "absent"
        /\ {req_hash[h], req_hash[g]} \subseteq DOMAIN insertedAt
        /\ insertedAt[req_hash[h]] < insertedAt[req_hash[g]]
        /\ pc[h] = "returned" /\ pc[g] = "returned"
        /\ result[h].kind = "Ok" /\ result[g].kind = "Ok"
        /\ Len(sent[h]) = 1 /\ Len(sent[g]) = 1
        /\ sent[h][1].uri # sent[g][1].uri
        /\ {req_hash[h], req_hash[g]} \subseteq DOMAIN cache
        /\ req_hash[h] # req_hash[g]

====
